---- MODULE Spec2Model ----
(***************************************************************************)
(* The annotation-driven parser of format_lean (lecture.py): the line      *)
(* readers, the node model they build, the callbacks they install and the  *)
(* file reader loop that drives them over an input file, with the proof    *)
(* state server queried for every tactic line.                             *)
(***************************************************************************)
EXTENDS Naturals, Sequences, FiniteSets, TLC

\* ---------------------------------------------------------------- bounds
MaxLines == 3    \* unconstrained lines of an input file
MaxInProof == 3  \* unconstrained lines after the `begin` of a lemma
MaxBody == 4     \* lines between `/-` and `-/` in the prose-block files
MaxTail == 2     \* unconstrained lines after a Definition block
MaxProof == 4    \* lines between `begin` and `end` in the lemma files

\* ----------------------------------------------------------- input lines
inpath == "lecture.lean"

FreeLines ==
  {"", "-- begin header", "-- end header", "/-", "-/", "/- Section",
   "/- Sub-section", "/- Definition", "/- Lemma", "begin", "end",
   "  -- step one", "Title."}

TextBodyLines == {"", "First.", "Second."}

\* The commentaries and the formal codes of the Definition and Lemma blocks.
Commentaries == {<<"Title.">>, <<"Title.", "More.">>}

Codes == {<<>>, <<"def foo := 1">>, <<"def foo := 1", "  := 2">>}

\* The lines tried after the `begin` of a lemma.
InProofLines == FreeLines \ {"/- Sub-section", "/- Definition"}

ProofBodyLines == {"  -- step one", "  -- step two", "  exact rfl,"}

SeqsOf(S, lo, hi) == UNION {[1..n -> S] : n \in lo..hi}

FreeInputs == SeqsOf(FreeLines, 0, MaxLines)

InProofInputs ==
  {<<"/- Lemma", "Title.", "-/", "def foo := 1", "begin">> \o f :
     f \in SeqsOf(InProofLines, 0, MaxInProof)}

TextInputs == {<<"/-">> \o b \o <<"-/">> : b \in SeqsOf(TextBodyLines, 1, MaxBody)}

DefinitionInputs ==
  {<<"/- Definition">> \o t \o <<"-/">> \o c \o <<"">> \o tl :
     t \in Commentaries, c \in Codes, tl \in SeqsOf(FreeLines, 0, MaxTail)}

LemmaInputs ==
  {<<"/- Lemma">> \o t \o <<"-/">> \o c \o <<"begin">> \o p \o <<"end">> :
     t \in Commentaries, c \in Codes, p \in SeqsOf(ProofBodyLines, 0, MaxProof)}

Inputs ==
  FreeInputs \cup InProofInputs \cup TextInputs \cup DefinitionInputs \cup LemmaInputs

\* ------------------------------------------------------------ the objects
Paragraph == [name |-> "paragraph", content |-> ""]

Paragraph_append(p, line) == [p EXCEPT !.content = @ \o line]

Text == [name |-> "text", paragraphs |-> <<>>]

Section == [name |-> "section", title |-> ""]

SubSection == [name |-> "subsection", title |-> ""]

title_append(sec, line) == [sec EXCEPT !.title = @ \o line]

\* (an append that replaces the buffer)
text_append_replace(obj, line) == [obj EXCEPT !.text = line]

text_append(obj, line) == [obj EXCEPT !.text = @ \o line]

lean_append(obj, line) == [obj EXCEPT !.lean = @ \o line]

Definition == [name |-> "definition", text |-> "", lean |-> ""]

ProofLine(l, tsl, tsr) ==
  [name |-> "proof-line", lean |-> l,
   tactic_state_left |-> tsl, tactic_state_right |-> tsr]

ProofItem == [name |-> "proof-item", text |-> "", lines |-> <<>>]

Proof == [name |-> "proof", items |-> <<>>]

Lemma == [name |-> "lemma", text |-> "", lean |-> "", proof |-> Proof]

proof_append(lemma, item) == [lemma EXCEPT !.proof.items = Append(@, item)]

\* --------------------------------------------------- the line patterns
\* Each pattern is the set of the input lines above that the reader's
\* regex matches from the start of the line.
HeaderBegin_regex(line) == line \in {"-- begin header"}

HeaderEnd_regex(line) == line \in {"-- end header"}

TextBegin_regex(line) == line \in {"/-"}

TextEnd_regex(line) == line \in {"-/"}

SectionBegin_regex(line) == line \in {"/- Section"}

SectionEnd_regex(line) == line \in {"-/"}

SubSectionBegin_regex(line) == line \in {"/- Sub-section"}

SubSectionEnd_regex(line) == line \in {"-/"}

DefinitionBegin_regex(line) == line \in {"/- Definition"}

DefinitionEnd_regex(line) == line \in {"-/"}

LemmaBegin_regex(line) == line \in {"/- Lemma"}

LemmaEnd_regex(line) == line \in {"-/"}

ProofBegin_regex(line) == line \in {"begin"}

ProofEnd_regex(line) == line \in {"end"}

ProofComment_regex(line) ==
  line \in {"  -- step one", "  -- step two", "-- begin header", "-- end header"}

\* m.group(1) of the proof comment pattern
ProofComment_group1(line) ==
  CASE line = "  -- step one" -> "step one"
    [] line = "  -- step two" -> "step two"
    [] line = "-- begin header" -> "begin header"
    [] line = "-- end header" -> "end header"
    [] OTHER -> ""

\* ------------------------------------------------------------- variables
VARIABLES
  input,                \* the lines of the file being read
  filename,             \* file_reader.filename
  cur_line_nb,          \* file_reader.cur_line_nb
  status,               \* file_reader.status
  output,               \* file_reader.output
  normal_line_handler,  \* file_reader.normal_line_handler
  blank_line_handler,   \* file_reader.blank_line_handler
  queries,              \* the queries received so far by file_reader.server
  pc                    \* "reading", "done", or the error that ended the parse

vars == <<input, filename, cur_line_nb, status, output, normal_line_handler,
          blank_line_handler, queries, pc>>

\* The file reader as one value, as the readers and callbacks receive it.
FR ==
  [filename |-> filename, cur_line_nb |-> cur_line_nb, status |-> status,
   output |-> output, normal_line_handler |-> normal_line_handler,
   blank_line_handler |-> blank_line_handler, queries |-> queries, pc |-> pc]

\* A callback is the function installed plus the node it has captured:
\* node is the position of the captured top-level node in the output and
\* item the position of the captured ProofItem in that node's proof.
Closure(fn, n, i) == [fn |-> fn, node |-> n, item |-> i]

dismiss_line == Closure("dismiss_line", 0, 0)

\* FileReader.reset
reset(fr) ==
  [fr EXCEPT !.status = "", !.normal_line_handler = dismiss_line,
             !.blank_line_handler = dismiss_line]

\* server.info(file, line, col): the answer of the proof state server
info(f, l, c) == [state_at |-> <<f, l, c>>]

\* One entry of the server's log: the query and whether the call raised.
Query(f, l, c, r) == [file |-> f, line |-> l, col |-> c, raised |-> r]

\* ------------------------------------------------------------ callbacks
\* Every callback takes the file reader, its own closure h and the line,
\* and gives the file reader it leaves behind.
TextBegin_normal_line(fr, h, line) ==
  [fr EXCEPT !.output[h.node].paragraphs[Len(fr.output[h.node].paragraphs)] =
                Paragraph_append(@, line)]

\* (a blank line callback that starts no new paragraph)
TextBegin_blank_line_none(fr, h, line) == fr

TextBegin_blank_line(fr, h, line) ==
  [fr EXCEPT !.output[h.node].paragraphs = Append(@, Paragraph)]

SectionBegin_normal_line(fr, h, line) ==
  [fr EXCEPT !.output[h.node] = title_append(@, line)]

SubSectionBegin_normal_line(fr, h, line) ==
  [fr EXCEPT !.output[h.node] = title_append(@, line)]

DefinitionBegin_normal_line(fr, h, line) ==
  [fr EXCEPT !.output[h.node] = text_append(@, line)]

DefinitionEnd_normal_line(fr, h, line) ==
  [fr EXCEPT !.output[h.node] = lean_append(@, line)]

\* (a blank line callback that leaves the definition open)
DefinitionEnd_blank_line_noreset(fr, h, line) == fr

DefinitionEnd_blank_line(fr, h, line) == reset(fr)

LemmaBegin_normal_line(fr, h, line) ==
  [fr EXCEPT !.output[h.node] = text_append(@, line)]

LemmaEnd_normal_line(fr, h, line) ==
  [fr EXCEPT !.output[h.node] = lean_append(@, line)]

\* The outcomes of the two calls of server.info for one line: both answer,
\* or the first or the second raises.
InfoOutcomes == {"ok", "left_raises", "right_raises"}

\* (the states asked for the line after the one being read)
ProofComment_normal_line_next_line(fr, h, line, res) ==
  LET fr1 == [fr EXCEPT !.status = "proof"]
      f == fr.filename
      nb == fr.cur_line_nb + 1
  IN  IF res = "left_raises"
        THEN [fr1 EXCEPT !.queries = Append(@, Query(f, nb, 1, TRUE)),
                         !.pc = "verifier_error"]
      ELSE IF res = "right_raises"
        THEN [fr1 EXCEPT !.queries = @ \o <<Query(f, nb, 1, FALSE),
                                            Query(f, nb, Len(line), TRUE)>>,
                         !.pc = "verifier_error"]
      ELSE [fr1 EXCEPT !.queries = @ \o <<Query(f, nb, 1, FALSE),
                                          Query(f, nb, Len(line), FALSE)>>,
                       !.output[h.node].proof.items[h.item].lines =
                          Append(@, ProofLine(line, info(f, nb, 1), info(f, nb, Len(line))))]

\* (one call of server.info only, its answer used for both states)
ProofComment_normal_line_one_query(fr, h, line, res) ==
  LET fr1 == [fr EXCEPT !.status = "proof"]
      f == fr.filename
      nb == fr.cur_line_nb
  IN  IF res # "ok"
        THEN [fr1 EXCEPT !.queries = Append(@, Query(f, nb, 1, TRUE)),
                         !.pc = "verifier_error"]
      ELSE [fr1 EXCEPT !.queries = Append(@, Query(f, nb, 1, FALSE)),
                       !.output[h.node].proof.items[h.item].lines =
                          Append(@, ProofLine(line, info(f, nb, 1), info(f, nb, 1)))]

\* (a failed call answered by an empty state, the parse going on)
ProofComment_normal_line_placeholder(fr, h, line, res) ==
  LET fr1 == [fr EXCEPT !.status = "proof"]
      f == fr.filename
      nb == fr.cur_line_nb
      tsl == IF res = "left_raises" THEN "" ELSE info(f, nb, 1)
      tsr == IF res = "right_raises" THEN "" ELSE info(f, nb, Len(line))
  IN  [fr1 EXCEPT !.queries = @ \o <<Query(f, nb, 1, res = "left_raises"),
                                     Query(f, nb, Len(line), res = "right_raises")>>,
                  !.output[h.node].proof.items[h.item].lines =
                     Append(@, ProofLine(line, tsl, tsr))]

ProofComment_normal_line(fr, h, line, res) ==
  LET fr1 == [fr EXCEPT !.status = "proof"]
      f == fr.filename
      nb == fr.cur_line_nb
      tsl == info(f, nb, 1)
      tsr == info(f, nb, Len(line))
  IN  IF res = "left_raises"
        THEN [fr1 EXCEPT !.queries = Append(@, Query(f, nb, 1, TRUE)),
                         !.pc = "verifier_error"]
      ELSE IF res = "right_raises"
        THEN [fr1 EXCEPT !.queries = @ \o <<Query(f, nb, 1, FALSE),
                                            Query(f, nb, Len(line), TRUE)>>,
                         !.pc = "verifier_error"]
      ELSE [fr1 EXCEPT !.queries = @ \o <<Query(f, nb, 1, FALSE),
                                          Query(f, nb, Len(line), FALSE)>>,
                       !.output[h.node].proof.items[h.item].lines =
                          Append(@, ProofLine(line, tsl, tsr))]

\* -------------------------------------------------------- the line readers
HeaderBegin_run(fr, line) ==
  [fr EXCEPT !.status = "header", !.normal_line_handler = dismiss_line]

HeaderEnd_run(fr, line) == [fr EXCEPT !.status = ""]

TextBegin_run(fr, line) ==
  LET n == Len(fr.output) + 1
  IN  [fr EXCEPT !.status = "text",
                 !.output = Append(@, [Text EXCEPT !.paragraphs = <<Paragraph>>]),
                 !.normal_line_handler = Closure("TextBegin.normal_line", n, 0),
                 !.blank_line_handler = Closure("TextBegin.blank_line", n, 0)]

TextEnd_guard(fr) == fr.status = "text"

TextEnd_run(fr, line) == reset(fr)

SectionBegin_run(fr, line) ==
  LET n == Len(fr.output) + 1
  IN  [fr EXCEPT !.status = "section",
                 !.output = Append(@, Section),
                 !.normal_line_handler = Closure("SectionBegin.normal_line", n, 0)]

\* (a section close that also answers in a sub-section)
SectionEnd_guard_any(fr) == fr.status \in {"section", "subsection"}

SectionEnd_guard(fr) == fr.status = "section"

SectionEnd_run(fr, line) == reset(fr)

SubSectionBegin_run(fr, line) ==
  LET n == Len(fr.output) + 1
  IN  [fr EXCEPT !.status = "subsection",
                 !.output = Append(@, SubSection),
                 !.normal_line_handler = Closure("SubSectionBegin.normal_line", n, 0)]

SubSectionEnd_guard(fr) == fr.status = "subsection"

SubSectionEnd_run(fr, line) == reset(fr)

DefinitionBegin_run(fr, line) ==
  LET n == Len(fr.output) + 1
  IN  [fr EXCEPT !.status = "definition_text",
                 !.output = Append(@, Definition),
                 !.normal_line_handler = Closure("DefinitionBegin.normal_line", n, 0)]

DefinitionEnd_guard(fr) == fr.status = "definition_text"

\* output[-1] of a non-empty output; the guard passes only after a
\* DefinitionBegin (LemmaBegin) has appended a node.
DefinitionEnd_run(fr, line) ==
  LET n == Len(fr.output)
  IN  [fr EXCEPT !.status = "definition_lean",
                 !.normal_line_handler = Closure("DefinitionEnd.normal_line", n, 0),
                 !.blank_line_handler = Closure("DefinitionEnd.blank_line", n, 0)]

LemmaBegin_run(fr, line) ==
  LET n == Len(fr.output) + 1
  IN  [fr EXCEPT !.status = "lemma_text",
                 !.output = Append(@, Lemma),
                 !.normal_line_handler = Closure("LemmaBegin.normal_line", n, 0)]

LemmaEnd_guard(fr) == fr.status = "lemma_text"

\* (the close marker of the commentary leaving the text callback in place)
LemmaEnd_run_keep_handler(fr, line) == [fr EXCEPT !.status = "lemma_lean"]

LemmaEnd_run(fr, line) ==
  LET n == Len(fr.output)
  IN  [fr EXCEPT !.status = "lemma_lean",
                 !.normal_line_handler = Closure("LemmaEnd.normal_line", n, 0)]

\* (a proof begin that leaves the installed normal line callback in place)
ProofBegin_run_keep_handler(fr, line) == [fr EXCEPT !.status = "proof"]

ProofBegin_run(fr, line) ==
  [fr EXCEPT !.status = "proof", !.normal_line_handler = dismiss_line]

ProofEnd_guard(fr) == fr.status = "proof"

ProofEnd_run(fr, line) == reset(fr)

ProofComment_guard(fr) == fr.status \in {"proof", "proof_comment"}

\* output[-1].proof_append and output[-1].proof.items[-1] raise when the
\* output is empty, its last node has no proof, or the proof has no item.
ProofComment_run(fr, line) ==
  LET n == Len(fr.output)
      hasLemma == n > 0 /\ fr.output[n].name = "lemma"
  IN  IF fr.status = "proof"
        THEN IF ~hasLemma
               THEN [fr EXCEPT !.pc = "crash"]
               ELSE LET i == Len(fr.output[n].proof.items) + 1
                        item == text_append(ProofItem, ProofComment_group1(line))
                    IN  [fr EXCEPT !.output[n] = proof_append(@, item),
                                   !.status = "proof_comment",
                                   !.normal_line_handler =
                                      Closure("ProofComment.normal_line", n, i)]
        ELSE IF ~hasLemma \/ fr.output[n].proof.items = <<>>
               THEN [fr EXCEPT !.pc = "crash"]
               ELSE LET i == Len(fr.output[n].proof.items)
                    IN  [fr EXCEPT !.output[n].proof.items[i] =
                                      text_append(@, ProofComment_group1(line)),
                                   !.normal_line_handler =
                                      Closure("ProofComment.normal_line", n, i)]

\* ---------------------------------------------------------- the file reader
\* The readers in the order render_lean_file registers them.
Readers ==
  <<"HeaderBegin", "HeaderEnd", "SectionBegin", "SectionEnd", "SubSectionBegin",
    "SubSectionEnd", "TextBegin", "TextEnd", "DefinitionBegin", "DefinitionEnd",
    "LemmaBegin", "LemmaEnd", "ProofBegin", "ProofEnd", "ProofComment">>

\* LineReader.read: the pattern is tried first, then run; run returning
\* False (its guard failing) makes the reader decline the line.
Matches(r, line) ==
  CASE r = "HeaderBegin" -> HeaderBegin_regex(line)
    [] r = "HeaderEnd" -> HeaderEnd_regex(line)
    [] r = "SectionBegin" -> SectionBegin_regex(line)
    [] r = "SectionEnd" -> SectionEnd_regex(line)
    [] r = "SubSectionBegin" -> SubSectionBegin_regex(line)
    [] r = "SubSectionEnd" -> SubSectionEnd_regex(line)
    [] r = "TextBegin" -> TextBegin_regex(line)
    [] r = "TextEnd" -> TextEnd_regex(line)
    [] r = "DefinitionBegin" -> DefinitionBegin_regex(line)
    [] r = "DefinitionEnd" -> DefinitionEnd_regex(line)
    [] r = "LemmaBegin" -> LemmaBegin_regex(line)
    [] r = "LemmaEnd" -> LemmaEnd_regex(line)
    [] r = "ProofBegin" -> ProofBegin_regex(line)
    [] r = "ProofEnd" -> ProofEnd_regex(line)
    [] r = "ProofComment" -> ProofComment_regex(line)

Guard(r, fr) ==
  CASE r = "TextEnd" -> TextEnd_guard(fr)
    [] r = "SectionEnd" -> SectionEnd_guard(fr)
    [] r = "SubSectionEnd" -> SubSectionEnd_guard(fr)
    [] r = "DefinitionEnd" -> DefinitionEnd_guard(fr)
    [] r = "LemmaEnd" -> LemmaEnd_guard(fr)
    [] r = "ProofEnd" -> ProofEnd_guard(fr)
    [] r = "ProofComment" -> ProofComment_guard(fr)
    [] OTHER -> TRUE

Accepts(r, fr, line) == Matches(r, line) /\ Guard(r, fr)

\* The first registered reader that accepts the line, "none" if all decline.
Reader(fr, line) ==
  LET acc == {i \in 1..Len(Readers) : Accepts(Readers[i], fr, line)}
  IN  IF acc = {} THEN "none"
      ELSE Readers[CHOOSE i \in acc : \A j \in acc : i <= j]

IsBlank(line) == line = ""

CallNormal(fr, h, line) ==
  CASE h.fn = "dismiss_line" -> fr
    [] h.fn = "TextBegin.normal_line" -> TextBegin_normal_line(fr, h, line)
    [] h.fn = "SectionBegin.normal_line" -> SectionBegin_normal_line(fr, h, line)
    [] h.fn = "SubSectionBegin.normal_line" -> SubSectionBegin_normal_line(fr, h, line)
    [] h.fn = "DefinitionBegin.normal_line" -> DefinitionBegin_normal_line(fr, h, line)
    [] h.fn = "DefinitionEnd.normal_line" -> DefinitionEnd_normal_line(fr, h, line)
    [] h.fn = "LemmaBegin.normal_line" -> LemmaBegin_normal_line(fr, h, line)
    [] h.fn = "LemmaEnd.normal_line" -> LemmaEnd_normal_line(fr, h, line)

CallBlank(fr, h, line) ==
  CASE h.fn = "dismiss_line" -> fr
    [] h.fn = "TextBegin.blank_line" -> TextBegin_blank_line(fr, h, line)
    [] h.fn = "DefinitionEnd.blank_line" -> DefinitionEnd_blank_line(fr, h, line)

\* The line about to be read and the file reader once its line counter
\* has been moved onto that line.
Reading == pc = "reading" /\ cur_line_nb < Len(input)

NextLine == input[cur_line_nb + 1]

Entered == [FR EXCEPT !.cur_line_nb = @ + 1]

Install(fr) ==
  /\ cur_line_nb' = fr.cur_line_nb
  /\ status' = fr.status
  /\ output' = fr.output
  /\ normal_line_handler' = fr.normal_line_handler
  /\ blank_line_handler' = fr.blank_line_handler
  /\ queries' = fr.queries
  /\ pc' = fr.pc
  /\ UNCHANGED <<input, filename>>

\* The line about to be read is not blank and r is the reader that takes it.
Fires(r) ==
  /\ Reading
  /\ ~IsBlank(NextLine)
  /\ r # "none" => Matches(r, NextLine)
  /\ Reader(Entered, NextLine) = r

\* ----------------------------------------------------------------- actions
Init ==
  /\ input \in Inputs
  /\ filename = inpath
  /\ cur_line_nb = 0
  /\ status = ""
  /\ output = <<>>
  /\ normal_line_handler = dismiss_line
  /\ blank_line_handler = dismiss_line
  /\ queries = <<>>
  /\ pc = "reading"

HeaderBegin == Fires("HeaderBegin") /\ Install(HeaderBegin_run(Entered, NextLine))

HeaderEnd == Fires("HeaderEnd") /\ Install(HeaderEnd_run(Entered, NextLine))

SectionBegin == Fires("SectionBegin") /\ Install(SectionBegin_run(Entered, NextLine))

SectionEnd == Fires("SectionEnd") /\ Install(SectionEnd_run(Entered, NextLine))

SubSectionBegin ==
  Fires("SubSectionBegin") /\ Install(SubSectionBegin_run(Entered, NextLine))

SubSectionEnd == Fires("SubSectionEnd") /\ Install(SubSectionEnd_run(Entered, NextLine))

TextBegin == Fires("TextBegin") /\ Install(TextBegin_run(Entered, NextLine))

TextEnd == Fires("TextEnd") /\ Install(TextEnd_run(Entered, NextLine))

DefinitionBegin ==
  Fires("DefinitionBegin") /\ Install(DefinitionBegin_run(Entered, NextLine))

DefinitionEnd == Fires("DefinitionEnd") /\ Install(DefinitionEnd_run(Entered, NextLine))

LemmaBegin == Fires("LemmaBegin") /\ Install(LemmaBegin_run(Entered, NextLine))

LemmaEnd == Fires("LemmaEnd") /\ Install(LemmaEnd_run(Entered, NextLine))

ProofBegin == Fires("ProofBegin") /\ Install(ProofBegin_run(Entered, NextLine))

ProofEnd == Fires("ProofEnd") /\ Install(ProofEnd_run(Entered, NextLine))

ProofComment == Fires("ProofComment") /\ Install(ProofComment_run(Entered, NextLine))

\* A blank line goes to the blank line callback.
BlankLine ==
  /\ Reading
  /\ IsBlank(NextLine)
  /\ Install(CallBlank(Entered, blank_line_handler, NextLine))

\* A line every reader declines goes to the normal line callback ...
NormalLine ==
  /\ Fires("none")
  /\ normal_line_handler.fn # "ProofComment.normal_line"
  /\ Install(CallNormal(Entered, normal_line_handler, NextLine))

\* ... which, when a proof comment installed it, asks the server twice.
TacticLine ==
  /\ Fires("none")
  /\ normal_line_handler.fn = "ProofComment.normal_line"
  /\ \E res \in InfoOutcomes :
       Install(ProofComment_normal_line(Entered, normal_line_handler, NextLine, res))

\* (an end of file that returns the output whatever the mode)
EndOfInput_any_mode ==
  /\ pc = "reading"
  /\ cur_line_nb = Len(input)
  /\ pc' = "done"
  /\ UNCHANGED <<input, filename, cur_line_nb, status, output,
                 normal_line_handler, blank_line_handler, queries>>

\* The end of the file: the output is the result unless a mode is open.
EndOfInput ==
  /\ pc = "reading"
  /\ cur_line_nb = Len(input)
  /\ pc' = IF status = "" THEN "done" ELSE "nesting_error"
  /\ UNCHANGED <<input, filename, cur_line_nb, status, output,
                 normal_line_handler, blank_line_handler, queries>>

Next ==
  \/ HeaderBegin \/ HeaderEnd
  \/ SectionBegin \/ SectionEnd
  \/ SubSectionBegin \/ SubSectionEnd
  \/ TextBegin \/ TextEnd
  \/ DefinitionBegin \/ DefinitionEnd
  \/ LemmaBegin \/ LemmaEnd
  \/ ProofBegin \/ ProofEnd \/ ProofComment
  \/ BlankLine \/ NormalLine \/ TacticLine
  \/ EndOfInput

Spec == Init /\ [][Next]_vars

\* ------------------------------------------------------ reading the input
RECURSIVE Concat(_)
Concat(ls) == IF ls = <<>> THEN "" ELSE Head(ls) \o Concat(Tail(ls))

\* A line that is not blank and that no reader's pattern matches.
ContentLine(line) ==
  ~IsBlank(line) /\ \A i \in 1..Len(Readers) : ~Matches(Readers[i], line)

AtEnd == cur_line_nb = Len(input)

\* ------------------------------------------------------------------- C1
HeaderOnly(inp) ==
  /\ Len(inp) >= 2
  /\ inp[1] = "-- begin header"
  /\ inp[Len(inp)] = "-- end header"
  /\ \A i \in 2..(Len(inp) - 1) : inp[i] \notin {"-- begin header", "-- end header"}

\* C1: when the input is only a header region (a begin header line, any
\* lines, an end header line), the output is empty at the end of the parse.
C1_HeaderOnlyOutputEmpty == (HeaderOnly(input) /\ pc = "done") => output = <<>>

\* ------------------------------------------------------------------- C2
\* A prose block: `/-`, blank or content lines of which the first is not
\* blank, `-/`.
TextBlock(inp) ==
  /\ Len(inp) >= 3
  /\ inp[1] = "/-"
  /\ inp[Len(inp)] = "-/"
  /\ ContentLine(inp[2])
  /\ \A i \in 2..(Len(inp) - 1) : IsBlank(inp[i]) \/ ContentLine(inp[i])

Body(inp) == SubSeq(inp, 2, Len(inp) - 1)

\* The paragraphs of the chunks of a body: a chunk is a maximal run of
\* non-blank lines, its paragraph the concatenation of its lines.
RECURSIVE Chunks(_)
Chunks(b) ==
  IF b = <<>> THEN <<>>
  ELSE LET n == Len(b)
           prev == Chunks(SubSeq(b, 1, n - 1))
       IN  IF IsBlank(b[n]) THEN prev
           ELSE IF n = 1 \/ IsBlank(b[n - 1])
                  THEN Append(prev, Paragraph_append(Paragraph, b[n]))
                  ELSE [prev EXCEPT ![Len(prev)] = Paragraph_append(@, b[n])]

\* Chunks separated by exactly one blank line, the last one followed by none.
SingleBlanks(b) ==
  \A i \in 1..Len(b) : IsBlank(b[i]) => (i < Len(b) /\ ~IsBlank(b[i + 1]))

\* C2 as claimed: a prose block of N chunks, whatever the number of blank
\* lines between the chunks or before the close marker, yields one Text whose
\* paragraphs are the N chunks in order.
C2_ChunksAnyBlanks ==
  (TextBlock(input) /\ pc = "done") =>
     output = <<[Text EXCEPT !.paragraphs = Chunks(Body(input))]>>

Blanks(b) == {i \in 1..Len(b) : IsBlank(b[i])}

\* C2 amended: a prose block of N chunks separated by exactly one blank line
\* each, with no blank line before the close marker, yields one Text whose
\* paragraphs are the N chunks in order; in any prose block the Text has one
\* Paragraph more than the body has blank lines.
C2_ChunksSingleBlanks ==
  (TextBlock(input) /\ pc = "done") =>
     /\ Len(output) = 1
     /\ output[1].name = "text"
     /\ Len(output[1].paragraphs) = Cardinality(Blanks(Body(input))) + 1
     /\ SingleBlanks(Body(input)) =>
          output = <<[Text EXCEPT !.paragraphs = Chunks(Body(input))]>>

C2_Witness ==
  /\ input = <<"/-", "First.", "Second.", "", "First.", "-/">>
  /\ pc = "done"
  /\ Len(output) = 1
  /\ Len(output[1].paragraphs) = 2
  /\ output[1].paragraphs[1].content = "First.Second."

\* ------------------------------------------------------------------- C3
\* A Definition block closed at line e whose code ends at the blank line b:
\* content lines between the open marker and e, and between e and b.
DefinitionSplit(inp, e, b) ==
  /\ inp[1] = "/- Definition"
  /\ inp[e] = "-/"
  /\ IsBlank(inp[b])
  /\ \A j \in 2..(e - 1) : ContentLine(inp[j])
  /\ \A j \in (e + 1)..(b - 1) : ContentLine(inp[j])

\* C3: in a Definition block the lines before the close marker go to text,
\* the lines from there to the first blank line go to lean, that blank line
\* resets the mode, and no later line changes the Definition.
C3_DefinitionSplit ==
  \A e \in 2..Len(input) : \A b \in (e + 1)..Len(input) :
     DefinitionSplit(input, e, b) =>
       /\ cur_line_nb >= 1 => Len(output) >= 1 /\ output[1].name = "definition"
       /\ cur_line_nb \in 1..e =>
            /\ output[1].text = Concat(SubSeq(input, 2, IF cur_line_nb < e THEN cur_line_nb ELSE e - 1))
            /\ output[1].lean = ""
       /\ cur_line_nb \in (e + 1)..(b - 1) =>
            /\ output[1].text = Concat(SubSeq(input, 2, e - 1))
            /\ output[1].lean = Concat(SubSeq(input, e + 1, cur_line_nb))
       /\ cur_line_nb = b => status = ""
       /\ cur_line_nb >= b =>
            output[1] = [Definition EXCEPT !.text = Concat(SubSeq(input, 2, e - 1)),
                                           !.lean = Concat(SubSeq(input, e + 1, b - 1))]

C3_Witness ==
  /\ input = <<"/- Definition", "Title.", "More.", "-/", "def foo := 1", "  := 2", "", "Title.">>
  /\ cur_line_nb = 8
  /\ status = ""
  /\ output[1] = [Definition EXCEPT !.text = "Title.More.", !.lean = "def foo := 1  := 2"]

\* ------------------------------------------------------------ lemma blocks
IsComment(line) ==
  ProofComment_regex(line) /\ ~HeaderBegin_regex(line) /\ ~HeaderEnd_regex(line)

\* A Lemma block whose commentary closes at line e and whose proof begins at
\* line g and ends at the last line: content lines as commentary and as
\* formal code, comment and content (tactic) lines in the proof, the first
\* proof line being a comment.
LemmaBlock(inp, e, g) ==
  /\ inp[1] = "/- Lemma"
  /\ inp[e] = "-/"
  /\ inp[g] = "begin"
  /\ inp[Len(inp)] = "end"
  /\ g < Len(inp)
  /\ \A j \in 2..(e - 1) : ContentLine(inp[j])
  /\ \A j \in (e + 1)..(g - 1) : ContentLine(inp[j])
  /\ \A j \in (g + 1)..(Len(inp) - 1) : IsComment(inp[j]) \/ ContentLine(inp[j])
  /\ g + 1 < Len(inp) => IsComment(inp[g + 1])

ProofBody(inp, g) == SubSeq(inp, g + 1, Len(inp) - 1)

\* The ProofLines of the output, in document order.
RECURSIVE ItemsLines(_)
ItemsLines(items) ==
  IF items = <<>> THEN <<>> ELSE Head(items).lines \o ItemsLines(Tail(items))

RECURSIVE AllProofLines(_)
AllProofLines(out) ==
  IF out = <<>> THEN <<>>
  ELSE (IF Head(out).name = "lemma" THEN ItemsLines(Head(out).proof.items) ELSE <<>>)
         \o AllProofLines(Tail(out))

NoFailure == \A i \in 1..Len(queries) : ~queries[i].raised

\* ------------------------------------------------------------------- C4
\* The numbers of tactic lines of the steps of a proof body, a step being
\* opened by a comment line.
RECURSIVE Steps(_)
Steps(b) ==
  IF b = <<>> THEN <<>>
  ELSE LET n == Len(b)
           prev == Steps(SubSeq(b, 1, n - 1))
       IN  IF IsComment(b[n]) THEN Append(prev, 0)
           ELSE [prev EXCEPT ![Len(prev)] = @ + 1]

\* No comment line directly follows a comment line.
SingleComments(b) == \A i \in 1..(Len(b) - 1) : ~(IsComment(b[i]) /\ IsComment(b[i + 1]))

LinesLengths(items) == [i \in 1..Len(items) |-> Len(items[i].lines)]

\* C4: a Lemma whose proof has k comment-introduced steps of n1..nk tactic
\* lines (ni >= 0, the last step possibly without any tactic line before
\* `end`) yields a Proof of k ProofItems with n1..nk lines in that order.
C4_StepLengths ==
  \A e \in 2..Len(input) : \A g \in (e + 1)..Len(input) :
     (/\ LemmaBlock(input, e, g)
      /\ SingleComments(ProofBody(input, g))
      /\ AtEnd /\ NoFailure) =>
        /\ Len(output) = 1
        /\ LinesLengths(output[1].proof.items) = Steps(ProofBody(input, g))

\* ------------------------------------------------------------------- C5
\* C5: the i-th ProofLine of the output holds the line of the input at some
\* line number L, and its left and right states are the server's answers to
\* the queries (file, L, 1) and (file, L, len(line)), which are the queries
\* the server received for it.
C5_ProofLineStates ==
  LET pls == AllProofLines(output)
  IN  /\ 2 * Len(pls) <= Len(queries)
      /\ \A i \in 1..Len(pls) :
           LET ql == queries[2 * i - 1]
               qr == queries[2 * i]
               L == ql.line
           IN  /\ L \in 1..cur_line_nb
               /\ i > 1 => queries[2 * i - 3].line < L
               /\ input[L] = pls[i].lean
               /\ ql = Query(filename, L, 1, FALSE)
               /\ qr = Query(filename, L, Len(input[L]), FALSE)
               /\ pls[i].tactic_state_left = info(filename, L, 1)
               /\ pls[i].tactic_state_right = info(filename, L, Len(input[L]))

C5_Witness ==
  /\ input = <<"/- Lemma", "Title.", "-/", "def foo := 1", "begin",
               "  -- step one", "  exact rfl,", "  -- step two", "  exact rfl,", "end">>
  /\ pc = "done"
  /\ AllProofLines(output) =
       <<ProofLine("  exact rfl,", info(inpath, 7, 1), info(inpath, 7, 12)),
         ProofLine("  exact rfl,", info(inpath, 9, 1), info(inpath, 9, 12))>>

\* ------------------------------------------------------------------- C6
\* The step that reads a line asks the server only when the line is not
\* blank, every reader declines it and a proof comment's callback is the
\* normal line callback: then it asks twice (once if the first call raises).
QueriesOnlyForTacticLines ==
  IF cur_line_nb' = cur_line_nb + 1
        /\ ~IsBlank(NextLine)
        /\ Reader(Entered, NextLine) = "none"
        /\ normal_line_handler.fn = "ProofComment.normal_line"
    THEN /\ Len(queries') = Len(queries) + (IF queries'[Len(queries) + 1].raised THEN 1 ELSE 2)
         /\ SubSeq(queries', 1, Len(queries)) = queries
         /\ Len(AllProofLines(output')) =
              Len(AllProofLines(output)) + (IF pc' = "verifier_error" THEN 0 ELSE 1)
    ELSE queries' = queries /\ Len(AllProofLines(output')) = Len(AllProofLines(output))

\* C6: as long as no call of the server has failed, the number of queries
\* is twice the number of ProofLines of the output, and only a tactic line
\* (a line handed to a proof comment's callback) issues queries: two of them.
C6_TwoQueriesPerTacticLine ==
  /\ [](NoFailure => Len(queries) = 2 * Len(AllProofLines(output)))
  /\ [][QueriesOnlyForTacticLines]_vars

C6_Witness ==
  /\ input = <<"/- Lemma", "Title.", "-/", "def foo := 1", "begin",
               "  -- step one", "Title.", "">>
  /\ cur_line_nb = 8
  /\ Len(queries) = 2
  /\ Len(AllProofLines(output)) = 1

\* ------------------------------------------------------------------- C7
\* C7: `/- Lemma`, commentary lines, `-/`, formal code lines, `begin`, one
\* comment line, one tactic line, `end` yields exactly one node, a Lemma with
\* the commentary as text, the formal code lines as lean and a Proof of one
\* ProofItem (the comment's captured text) with one ProofLine (the tactic
\* line); the parse ends in default mode.
C7_LemmaBlock ==
  \A e \in 2..Len(input) : \A g \in (e + 1)..Len(input) :
     (/\ LemmaBlock(input, e, g)
      /\ Len(input) = g + 3
      /\ ContentLine(input[g + 2])
      /\ AtEnd) =>
        /\ status = ""
        /\ pc \in {"reading", "done"}
        /\ output =
             <<[Lemma EXCEPT
                  !.text = Concat(SubSeq(input, 2, e - 1)),
                  !.lean = Concat(SubSeq(input, e + 1, g - 1)),
                  !.proof.items =
                     <<[ProofItem EXCEPT
                          !.text = ProofComment_group1(input[g + 1]),
                          !.lines = <<ProofLine(input[g + 2],
                                                info(filename, g + 2, 1),
                                                info(filename, g + 2, Len(input[g + 2])))>>]>>]>>

C7_Witness ==
  /\ input = <<"/- Lemma", "Title.", "-/", "def foo := 1", "begin",
               "  -- step one", "  exact rfl,", "end">>
  /\ pc = "done"
  /\ Len(output) = 1
  /\ output[1].text = "Title."
  /\ output[1].lean = "def foo := 1"
  /\ output[1].proof.items[1].text = "step one"
  /\ output[1].proof.items[1].lines[1].lean = "  exact rfl,"

\* ------------------------------------------------------------------- C8
\* C8: the parse returns its output only in default mode; when the end of
\* the input is reached in another mode (as after `/- Section` and a title
\* line) it ends in a structural nesting error.
C8_OpenModeAtEnd ==
  /\ pc = "done" => status = ""
  /\ (input = <<"/- Section", "Title.">> /\ pc # "reading")
        => (pc = "nesting_error" /\ status = "section")

C8_Witness ==
  /\ input = <<"/- Section", "Title.">>
  /\ pc = "nesting_error"
  /\ output = <<title_append(Section, "Title.")>>

\* ------------------------------------------------------------------- C9
ClosableModes == {"text", "section", "subsection", "definition_text", "lemma_text"}

\* C9: a close marker `-/` read in a mode that no close rule accepts ends
\* the parse in a structural nesting error.
C9_StrayCloseIsError ==
  [][(Reading /\ NextLine = "-/" /\ status \notin ClosableModes)
        => pc' = "nesting_error"]_vars

\* ------------------------------------------------------------------ C10
\* C10: when a call of the server fails the parse is aborted on that line:
\* the failed query is the last one, the line counter stays on its line, no
\* ProofLine is stored for that line (every ProofLine of the output belongs
\* to two answered queries about another line).
C10_FailureAborts ==
  \A i \in 1..Len(queries) :
     queries[i].raised =>
       /\ i = Len(queries)
       /\ pc = "verifier_error"
       /\ cur_line_nb = queries[i].line
       /\ 2 * Len(AllProofLines(output)) =
            Cardinality({j \in 1..Len(queries) : queries[j].line # queries[i].line})

C10_Witness ==
  /\ pc = "verifier_error"
  /\ input = <<"/- Lemma", "Title.", "-/", "def foo := 1", "begin",
               "  -- step one", "  exact rfl,", "  exact rfl,", "end">>
  /\ cur_line_nb = 8
  /\ Len(queries) = 4
  /\ queries[4].raised
  /\ Len(AllProofLines(output)) = 1

\* ------------------------------------------------------------------ C11
StrPrefix(a, b) == Len(a) <= Len(b) /\ SubSeq(b, 1, Len(a)) = a

ParagraphsExtend(p, q) ==
  /\ Len(p) <= Len(q)
  /\ \A i \in 1..Len(p) : StrPrefix(p[i].content, q[i].content)

LinesExtend(l, m) == Len(l) <= Len(m) /\ SubSeq(m, 1, Len(l)) = l

ItemsExtend(a, b) ==
  /\ Len(a) <= Len(b)
  /\ \A i \in 1..Len(a) :
       StrPrefix(a[i].text, b[i].text) /\ LinesExtend(a[i].lines, b[i].lines)

NodeExtends(a, b) ==
  /\ a.name = b.name
  /\ CASE a.name = "text" -> ParagraphsExtend(a.paragraphs, b.paragraphs)
       [] a.name \in {"section", "subsection"} -> StrPrefix(a.title, b.title)
       [] a.name = "definition" -> StrPrefix(a.text, b.text) /\ StrPrefix(a.lean, b.lean)
       [] a.name = "lemma" ->
            /\ StrPrefix(a.text, b.text)
            /\ StrPrefix(a.lean, b.lean)
            /\ ItemsExtend(a.proof.items, b.proof.items)

OutputExtends(o, p) ==
  Len(o) <= Len(p) /\ \A i \in 1..Len(o) : NodeExtends(o[i], p[i])

\* C11: every step only appends: the output before the step is a prefix of
\* the output after it, node by node, and so are the paragraphs of a Text,
\* the items of a Proof, the lines of a ProofItem and every text buffer.
C11_AppendOnly == [][OutputExtends(output, output')]_vars

C11_Witness ==
  /\ input = <<"/- Lemma", "Title.", "More.", "-/", "def foo := 1", "  := 2", "begin",
               "  -- step one", "  -- step two", "  exact rfl,", "  exact rfl,", "end">>
  /\ pc = "done"
  /\ output[1].text = "Title.More."
  /\ output[1].lean = "def foo := 1  := 2"
  /\ output[1].proof.items[1].text = "step onestep two"
  /\ Len(output[1].proof.items[1].lines) = 2

\* ------------------------------------------------------------------ C12
\* C12: in every step only the most recently appended node of the output
\* may change: a node that is not the last node after the step is left as
\* it was.
C12_OnlyLastNodeChanges ==
  [][\A i \in 1..Len(output) : i < Len(output') => output'[i] = output[i]]_vars

\* ------------------------------------------------------------------ C13
\* C13: an `-- end header` line read in a mode other than header (and other
\* than default) does not change the mode to default.
C13_HeaderEndOnlyInHeader ==
  [][(Reading /\ NextLine = "-- end header" /\ status \notin {"header", ""})
        => status' # ""]_vars

\* ------------------------------------------------------------------ C14
\* The five close readers that share the pattern `-/`, the (mode of the)
\* file reader their open reader leaves, and what each of them does.
CloseReaders == {"TextEnd", "SectionEnd", "SubSectionEnd", "DefinitionEnd", "LemmaEnd"}

OpenedBy(r, fr) ==
  CASE r = "TextEnd" -> TextBegin_run(fr, "/-")
    [] r = "SectionEnd" -> SectionBegin_run(fr, "/- Section")
    [] r = "SubSectionEnd" -> SubSectionBegin_run(fr, "/- Sub-section")
    [] r = "DefinitionEnd" -> DefinitionBegin_run(fr, "/- Definition")
    [] r = "LemmaEnd" -> LemmaBegin_run(fr, "/- Lemma")

CloseMode(r) ==
  CASE r \in {"TextEnd", "SectionEnd", "SubSectionEnd"} -> ""
    [] r = "DefinitionEnd" -> "definition_lean"
    [] r = "LemmaEnd" -> "lemma_lean"

ClosersOf(fr, line) == {r \in CloseReaders : Accepts(r, fr, line)}

\* C14: when a `-/` line is read, at most one of the five close readers
\* accepts it, that one is the reader whose open reader set the current
\* mode, and the step is that reader's: text, section and sub-section are
\* reset to the default mode with the discarding callbacks, definition_text
\* becomes definition_lean and lemma_text becomes lemma_lean, the output
\* being left alone. With at most one reader accepting, the order of
\* registration cannot matter.
C14_CloseGuardsExclusive ==
  [][(Reading /\ NextLine = "-/")
        => LET acc == ClosersOf(Entered, NextLine)
           IN  /\ Cardinality(acc) <= 1
               /\ \A r \in CloseReaders : Matches(r, NextLine)
               /\ \A r \in acc :
                    /\ status = OpenedBy(r, FR).status
                    /\ status' = CloseMode(r)
                    /\ output' = output
                    /\ CloseMode(r) = ""
                         => /\ normal_line_handler' = dismiss_line
                            /\ blank_line_handler' = dismiss_line]_vars

C14_Witness ==
  /\ input = <<"/- Sub-section", "Title.", "-/">>
  /\ cur_line_nb = 3
  /\ status = ""
  /\ output[1].name = "subsection"
  /\ output[1].title = "Title."

\* ------------------------------------------------------------------ C15
\* C15: a non-blank line that no reader accepts, read in the default mode,
\* is dropped: the output and the mode are as they were.
C15_DefaultModeDrops ==
  [][(Reading /\ status = "" /\ ~IsBlank(NextLine)
        /\ Reader(Entered, NextLine) = "none")
        => output' = output /\ status' = status]_vars

\* ------------------------------------------------------------------ C16
\* C16: an `end` line read in mode proof or proof_comment closes the proof:
\* the mode becomes the default one, the server is not asked about the line
\* and the line is stored nowhere in the output.
C16_EndClosesProof ==
  [][(Reading /\ NextLine = "end" /\ status \in {"proof", "proof_comment"})
        => status' = "" /\ queries' = queries /\ output' = output]_vars

\* ------------------------------------------------------------------ C17
\* A line no reader's pattern matches, and a line that opens a block.
PlainLine(line) ==
  ~IsBlank(line) /\ \A i \in 1..Len(Readers) : ~Matches(Readers[i], line)

Opens(line) ==
  \E r \in {"TextBegin", "SectionBegin", "SubSectionBegin", "DefinitionBegin",
            "LemmaBegin"} : Matches(r, line)

\* A `begin` line has been read, and since then no comment line and no
\* line opening another block.
BeforeNextComment ==
  \E k \in 1..cur_line_nb :
    /\ input[k] = "begin"
    /\ \A j \in (k + 1)..cur_line_nb :
         ~ProofComment_regex(input[j]) /\ ~Opens(input[j])

\* C17: after a `begin` line (also one read inside a proof) and before the
\* next comment line, a tactic line is discarded: the output, and so every
\* ProofItem, is unchanged and the server is not asked.
C17_TacticLinesBeforeCommentDiscarded ==
  [][(Reading /\ BeforeNextComment /\ PlainLine(NextLine))
        => output' = output /\ queries' = queries]_vars

C17_Witness ==
  /\ input = <<"/- Lemma", "Title.", "-/", "def foo := 1", "begin",
               "  -- step one", "begin", "Title.">>
  /\ cur_line_nb = 8
  /\ status = "proof"
  /\ queries = <<>>
  /\ Len(output[1].proof.items) = 1
  /\ output[1].proof.items[1].lines = <<>>

\* ------------------------------------------------------------------ C18
\* The number of proof items of the last node, 0 when it has no proof.
NbItems(o) ==
  IF Len(o) > 0 /\ o[Len(o)].name = "lemma" THEN Len(o[Len(o)].proof.items) ELSE 0

LastIsLemma(o) == Len(o) > 0 /\ o[Len(o)].name = "lemma"

\* C18: a comment line (one that is not a header marker) read in mode proof
\* appends exactly one ProofItem to the Proof of the last Lemma and sets the
\* mode to proof_comment; read in
\* mode proof_comment it appends no ProofItem and extends the text of the
\* last one; a tactic line read in mode proof_comment sets the mode to
\* proof; a comment line read in any other mode is not taken by
\* ProofComment.
C18_ProofCommentTransitions ==
  [][/\ (Reading /\ IsComment(NextLine) /\ status = "proof")
          => /\ pc' = "reading"
             /\ status' = "proof_comment"
             /\ LastIsLemma(output')
             /\ Len(output') = Len(output)
             /\ NbItems(output') = NbItems(output) + 1
     /\ (Reading /\ IsComment(NextLine) /\ status = "proof_comment")
          => /\ pc' = "reading"
             /\ status' = "proof_comment"
             /\ NbItems(output') = NbItems(output)
             /\ OutputExtends(output, output')
     /\ (Reading /\ PlainLine(NextLine) /\ status = "proof_comment")
          => status' = "proof"
     /\ (Reading /\ IsComment(NextLine)
           /\ status \notin {"proof", "proof_comment"})
          => Reader(Entered, NextLine) # "ProofComment"]_vars

\* ------------------------------------------------------------------ C19
\* C19: a blank line read in mode lemma_text or lemma_lean leaves the mode
\* and every node of the output as they were.
C19_NoBlankResetInLemma ==
  [][(Reading /\ IsBlank(NextLine) /\ status \in {"lemma_text", "lemma_lean"})
        => status' = status /\ output' = output]_vars

\* ------------------------------------------------------------------ C20
\* C20: whenever the mode is proof or proof_comment the output is not empty
\* and its last node is a Lemma.
C20_ProofModeHasLemma ==
  status \in {"proof", "proof_comment"} => LastIsLemma(output)

====
